---- MODULE Spec2Model ----
(***************************************************************************)
(* Model of the like-toggle engine, the broadcast notifier, the batch      *)
(* query and the refresh-token ledger of Postways (apps/diary).            *)
(*                                                                         *)
(* The database is PostgreSQL in READ COMMITTED mode driven through the    *)
(* Django ORM: a statement sees the committed rows plus the writes of its  *)
(* own transaction; SELECT ... FOR UPDATE locks the rows it returns and    *)
(* waits for a lock held by another transaction; an INSERT into a unique   *)
(* index waits for an in-flight transaction that inserted or deleted the   *)
(* same key; foreign keys are DEFERRABLE INITIALLY DEFERRED.  A statement  *)
(* that has to wait is modelled by an action that is not enabled.          *)
(***************************************************************************)
EXTENDS Integers, Sequences, FiniteSets, TLC

\* ------------------------------------------------------------------ bounds
MaxUser == 2
MaxPost == 2
MaxReq == 2
MaxOps == 3
MaxId == 2
MaxConn == 2
MaxChan == 2
MaxPw == 1
MaxTokLen == 2
MaxIds == 2
MaxBatch == 1
MaxAcct == 4
MaxHours == 25
MaxDays == 31
MaxName == 3
MaxServed == 3
MaxEdit == 1
MaxMw == 3
MaxSeconds == 120

Users == 1..MaxUser
Posts == 1..MaxPost
Reqs == 1..MaxReq
Conns == 1..MaxConn

\* request.user of an unauthenticated caller (AnonymousUser, id None)
Anon == 0
\* request.data without a "post" key
MissingPost == 0
\* a primary key no Post row has
NonexistentPost == 99
\* Like.objects...first() returning None / no row
NoLike == [id |-> 0, user |-> 0, post |-> 0]
\* no event
NoEvent == [post_id |-> 0, like_count |-> 0, user_id |-> 0]

HTTP_201_CREATED == 201
HTTP_204_NO_CONTENT == 204
HTTP_400_BAD_REQUEST == 400
HTTP_401_UNAUTHORIZED == 401
HTTP_500_INTERNAL_SERVER_ERROR == 500

\* Post.author: post p was written by user ((p - 1) % MaxUser) + 1
author == [p \in Posts |-> ((p - 1) % MaxUser) + 1]

VARIABLES
    users,      \* CustomUser rows (ids)
    posts,      \* Post rows (ids)
    published,  \* Post.published of every post
    likes,      \* committed Like rows [id, user, post]
    nextId,     \* next value of the Like id sequence
    rq,         \* per request slot: position and locals of create()
    ops,        \* number of requests the server has received so far
    direct,     \* the last direct Like.objects.create: request number, outcome
    group,      \* channels in the "likes" group
    chan,       \* per connection: events queued on its channel
    received,   \* per connection: frames sent to the client
    dropped,    \* per connection: events the consumer did not forward
    log,        \* number of warnings logged by broadcast_like_update
    nth,        \* per (user, post): toggle calls that passed validation
    outstanding,  \* OutstandingToken rows [jti, user]
    blacklisted,  \* per jti: number of BlacklistedToken rows of its record
    age,          \* per jti: 0 fresh, 1 access token expired, 2 both expired
    issued,       \* tokens handed to clients [type, jti, user]
    password,     \* CustomUser.password of every user
    mail,         \* recovery emails queued [to, access]
    nextJti,      \* next token identifier
    rf,           \* per request slot: position and locals of a token refresh
    tx,           \* the password change or reset in its transaction
    auth,         \* the last answered request of the token endpoints
    batch,        \* the last answered request of the batch endpoint
    account,      \* CustomUser columns of every user
    now,          \* timezone.now(), in the time unit of the specification
    nextUuid,     \* next uuid4 of an email verification
    reply,        \* the last answered request of the account endpoints
    content,      \* Post title and content of every post (a version)
    served,       \* the last answered request of the post detail endpoint
    cache,        \* per user: expiry of the user_last_request key, or Null
    mw,           \* requests seen, and per slot the position of _update_last_request
    writes        \* per user: times at which last_request was written

authvars == <<outstanding, blacklisted, age, issued, password, mail,
              nextJti, rf, tx, auth>>

restvars == <<account, now, nextUuid, reply, content, served, cache, mw,
              writes>>

vars == <<users, posts, published, likes, nextId, rq, ops, direct,
          group, chan, received, dropped, log, nth, authvars, batch,
          restvars>>

dbvars == <<users, posts, published, likes, nextId>>
wsvars == <<group, chan, received, dropped>>
hist == <<direct, log, nth>>

\* ------------------------------------------------------ token ledger
\* OutstandingToken.user after the user row is deleted (on_delete=SET_NULL)
NoUser == 0
\* no token presented
NoToken == [type |-> "none", jti |-> 0, user |-> 0]

HTTP_200_OK == 200
HTTP_404_NOT_FOUND == 404

\* every answered login, recovery request or refresh creates at most one
\* token, so the identifiers in use never exceed the number of requests
Jtis == 1..MaxOps
\* password values: 0 is the password set at registration
Passwords == 0..MaxPw

IdleRefresh == [pc |-> "idle", refresh |-> NoToken, at |-> 0]
IdleTx == [pc |-> "idle", kind |-> "none", user |-> NoUser, at |-> 0,
           access |-> 0, new_password |-> 0, tokens_to_blacklist |-> {}]
NoAuth == [at |-> 0, kind |-> "none", user |-> NoUser, status |-> 0,
           presented |-> 0, refresh |-> 0, access |-> 0]

\* the answer to request number "at"
Answer(at, kind, user, status, presented, new) ==
    [at |-> at, kind |-> kind, user |-> user, status |-> status,
     presented |-> presented, refresh |-> new, access |-> new]

RefreshToken(j, u) == [type |-> "refresh", jti |-> j, user |-> u]
AccessToken(j, u) == [type |-> "access", jti |-> j, user |-> u]

\* token lifetimes: the access token expires before the refresh token it
\* was created with
AccessExpired(j) == age[j] >= 1
RefreshExpired(j) == age[j] >= 2

\* bulk_create of a BlacklistedToken for every record of the user,
\* whether or not it has one already
blacklist_every_token(out, bl, user) ==
    [j \in Jtis |->
        IF \E t \in out : t.jti = j /\ t.user = user
        THEN bl[j] + 1 ELSE bl[j]]

\* blacklist_user_tokens(user): the BlacklistedToken table after the call
blacklist_user_tokens(out, bl, user) ==
    LET blacklisted_token_ids ==
            {t.jti : t \in {x \in out : x.user = user /\ bl[x.jti] > 0}}
        tokens_to_blacklist ==
            {t.jti : t \in {x \in out : x.user = user}}
                \ blacklisted_token_ids
    IN [j \in Jtis |->
           \* ignore_conflicts=True: a row that violates the one-to-one
           \* constraint is skipped
           IF j \in tokens_to_blacklist /\ bl[j] = 0 THEN 1 ELSE bl[j]]

\* Token.check_blacklist(): BlacklistedToken.objects.filter(token__jti=jti)
check_blacklist_skipped(j) == FALSE

check_blacklist(j) == blacklisted[j] > 0

\* RefreshToken(attrs["refresh"]): verify() raises TokenError for an
\* expired or a blacklisted token
Verifies(t) ==
    /\ t.type = "refresh"
    /\ ~RefreshExpired(t.jti)
    /\ ~check_blacklist(t.jti)

\* JWTAuthentication with the default settings: the access token must be
\* unexpired and its user must exist; the blacklist is not consulted
Authenticates(t) ==
    /\ t.type = "access"
    /\ ~AccessExpired(t.jti)
    /\ t.user \in users

\* OutstandingToken rows after CustomUser.delete(): user is set to NULL
SetNull(out, user) ==
    {IF t.user = user THEN [t EXCEPT !.user = NoUser] ELSE t : t \in out}

\* the tables after a recovery request that issues its token first
RecoveryIssuesFirst(out, bl, user, j) ==
    [outstanding |-> out \cup {[jti |-> j, user |-> user]},
     blacklisted |->
         blacklist_user_tokens(out \cup {[jti |-> j, user |-> user]},
                               bl, user)]

\* TokenRecoveryAPIView.post: blacklist_user_tokens(user), then
\* RefreshToken.for_user(user), which records the new token
RecoveryLedger(out, bl, user, j) ==
    [outstanding |-> out \cup {[jti |-> j, user |-> user]},
     blacklisted |-> blacklist_user_tokens(out, bl, user)]

\* the default rotation: the new refresh token gets no record
RotatedUntracked(out, j, user) == out

\* OutstandingToken.objects.create(user=user, jti=jti, ...) for the
\* rotated refresh token
RotatedLedger(out, j, user) == out \cup {[jti |-> j, user |-> user]}

\* a flush that deletes the OutstandingToken rows only
FlushKeepsBlacklist(out, bl) ==
    [outstanding |-> {t \in out : ~RefreshExpired(t.jti)},
     blacklisted |-> bl]

\* flushexpiredtokens: delete the expired OutstandingToken rows;
\* BlacklistedToken.token is on_delete=CASCADE
Flushed(out, bl) ==
    [outstanding |-> {t \in out : ~RefreshExpired(t.jti)},
     blacklisted |->
         [j \in Jtis |-> IF RefreshExpired(j) THEN 0 ELSE bl[j]]]

\* a BlacklistedToken insert for record j has to wait: the password
\* transaction holds an uncommitted row for the same record
BlacklistWaits(J) ==
    /\ tx.pc = "commit"
    /\ J \cap tx.tokens_to_blacklist # {}

\* ------------------------------------------------------ batch endpoint
\* the characters of the "ids" query parameter (the comma separates)
Digits == {"1", "2"}
Chars == Digits \cup {" ", "x"}
\* the pieces of ids_param.split(",")
Tokens == UNION {[1..n -> Chars] : n \in 0..MaxTokLen}
\* a request without the "ids" parameter
NoIds == <<>>
IdsParams == {NoIds} \cup UNION {[1..n -> Tokens] : n \in 1..MaxIds}

NoBatch == [n |-> 0, user |-> Anon, ids |-> NoIds, status |-> 0,
            data |-> <<>>]

\* request.query_params.get("ids", ""), as the list "".split(",") gives
QueryIds(ids) == IF ids = NoIds THEN << <<>> >> ELSE ids

\* str.strip()
RECURSIVE lstrip(_)
lstrip(s) == IF s # <<>> /\ Head(s) = " " THEN lstrip(Tail(s)) ELSE s

RECURSIVE rstrip(_)
rstrip(s) ==
    IF s # <<>> /\ s[Len(s)] = " " THEN rstrip(SubSeq(s, 1, Len(s) - 1))
    ELSE s

strip(s) == rstrip(lstrip(s))

\* int(s) raises ValueError unless s is a string of digits
IsInteger(s) == s # <<>> /\ \A i \in 1..Len(s) : s[i] \in Digits

DigitValue(c) == IF c = "1" THEN 1 ELSE 2

RECURSIVE int(_)
int(s) ==
    IF s = <<>> THEN 0
    ELSE 10 * int(SubSeq(s, 1, Len(s) - 1)) + DigitValue(s[Len(s)])

\* a parser that drops what it cannot read
ParseIdsLenient(ids) ==
    [ok |-> TRUE,
     post_ids |-> {int(strip(ids[i])) :
                     i \in {k \in 1..Len(ids) : IsInteger(strip(ids[k]))}}]

\* [int(id.strip()) for id in ids_param.split(",") if id.strip()]
ParseIds(ids) ==
    LET kept == {i \in 1..Len(ids) : strip(ids[i]) # <<>>}
    IN IF \E i \in kept : ~IsInteger(strip(ids[i]))
       THEN [ok |-> FALSE, post_ids |-> {}]
       ELSE [ok |-> TRUE, post_ids |-> {int(strip(ids[i])) : i \in kept}]

\* a query that returns published posts only
BatchPublishedPosts(post_ids) ==
    {p \in posts : p \in post_ids /\ published[p]}

\* Post.objects.filter(id__in=post_ids)
BatchPosts(post_ids) == {p \in posts : p \in post_ids}

\* ----------------------------------------------------------- request slots
IdleReq ==
    [pc |-> "idle", user |-> Anon, post |-> MissingPost,
     existing_like |-> NoLike, created |-> NoLike,
     response |-> 0, like_count |-> 0,
     sends |-> 0, event |-> NoEvent, failed |-> FALSE,
     raced |-> FALSE, count0 |-> 0, liked0 |-> FALSE, k |-> 0,
     unpublished |-> FALSE]

\* positions inside "with transaction.atomic()"
InTxn == {"read", "write", "recover", "count", "commit"}
\* positions after the existence read and before the commit
Critical == {"write", "recover", "count", "commit"}

Pair(u, p) == {l \in likes : l.user = u /\ l.post = p}

\* Like.Meta.ordering = ["-created"]: first() is the newest row
First(S) == IF S = {} THEN NoLike
            ELSE CHOOSE l \in S : \A m \in S : m.id <= l.id

\* a plain SELECT: nothing is locked
LockedByNobody(r) == {}

\* rows locked FOR UPDATE (or deleted) by a transaction other than r
LockedByOther(r) ==
    {rq[o].existing_like : o \in {x \in Reqs \ {r} : rq[x].pc \in Critical}}
        \ {NoLike}

\* rows inserted by in-flight transactions other than r, not yet committed
InsertedByOther(r) ==
    {rq[o].created : o \in {x \in Reqs \ {r} : rq[x].pc \in Critical}}
        \ {NoLike}

\* rows deleted by in-flight transactions other than r, not yet committed
DeletedByOther(r) ==
    {rq[o].existing_like :
        o \in {x \in Reqs \ {r} : rq[x].pc \in {"count", "commit"}}} \ {NoLike}


\* ------------------------------------------------------------- pure parts
\* str(post_id), str(like_count) in the event payload
Str(n) == [str |-> n]

\* a handler that takes every read for a hit
FoundAlways(row) == TRUE

\* "if existing_like:" in create()
Found(row) == row # NoLike

\* the rows of post p that request r's transaction sees: committed rows,
\* minus the row it deleted, plus the row it inserted
TxnRows(r, p) ==
    {l \in (likes \ {rq[r].existing_like}) \cup ({rq[r].created} \ {NoLike}) :
        l.post = p}

\* a count that misses the transaction's own write
LikeCountCommitted(r, p) == Cardinality({l \in likes : l.post = p})

\* Like.objects.filter(post=post).count() inside the atomic block
LikeCount(r, p) == Cardinality(TxnRows(r, p))

\* the model without the constraint
unique_like_absent(u, p) == TRUE

\* UniqueConstraint(fields=["user", "post"], name="unique_like"):
\* TRUE iff a row (u, p) may be added to the committed rows
unique_like(u, p) == Pair(u, p) = {}

\* an INSERT of (u, p) by r has to wait: another in-flight transaction has
\* inserted the key, or has deleted the committed row that holds it
InsertWaits(r, u, p) ==
    \/ \E l \in InsertedByOther(r) : l.user = u /\ l.post = p
    \/ \E l \in DeletedByOther(r) : l \in Pair(u, p)

\* a validator that lets unpublished posts through
validate_post_any(p) == TRUE

\* LikeCreateDestroySerializer.validate_post
validate_post(p) == published[p]

\* permission_classes = (IsAuthenticated,) then serializer.is_valid():
\* 0 when the request passes, else the status of the rejection
Rejection(u, p) ==
    IF u = Anon THEN HTTP_401_UNAUTHORIZED
    ELSE IF p = MissingPost THEN HTTP_400_BAD_REQUEST
    ELSE IF p \notin posts THEN HTTP_400_BAD_REQUEST
    ELSE IF ~validate_post(p) THEN HTTP_400_BAD_REQUEST
    ELSE 0

\* LikeBatchAPIView.get for one id: the count and the caller's liked flag
BatchCount(p) == Cardinality({l \in likes : l.post = p})
BatchLikedAnyUser(u, p) == u # Anon /\ \E l \in likes : l.post = p
BatchLiked(u, p) == u # Anon /\ \E l \in likes : l.user = u /\ l.post = p

\* a notifier whose failure escapes to the caller
ResponseAfterRaise(response, ok) ==
    IF ok THEN response ELSE HTTP_500_INTERNAL_SERVER_ERROR

\* the response create() returns after broadcast_like_update came back:
\* the try/except in broadcast_like_update swallows a transport failure
ResponseAfterBroadcast(response, ok) == response

\* a consumer that forwards every event
ForwardAll(current_user_id, user_id) == TRUE

\* LikeConsumer.like_message: forward unless the event is the user's own
Forward(current_user_id, user_id) ==
    current_user_id = Anon \/ current_user_id # user_id

\* ----------------------------------------------------------- toggle: steps
\* create(): permission check and serializer.is_valid(raise_exception=True)
Start(r, u, p) ==
    /\ rq[r].pc \in {"idle", "done"}
    /\ \A o \in Reqs : o < r => rq[o].pc \notin {"idle", "done"}
    /\ ops < MaxOps
    /\ ops' = ops + 1
    /\ LET rej == Rejection(u, p) IN
          /\ rq' = [rq EXCEPT ![r] =
                   [IdleReq EXCEPT
                    !.pc = IF rej = 0 THEN "read" ELSE "done",
                    !.user = u, !.post = p, !.response = rej,
                    !.count0 = BatchCount(p), !.liked0 = BatchLiked(u, p),
                    !.k = IF rej = 0 THEN nth[u][p] + 1 ELSE 0]]
          /\ nth' = IF rej = 0 THEN [nth EXCEPT ![u][p] = @ + 1] ELSE nth
    /\ UNCHANGED <<dbvars, direct, wsvars, log>>
    /\ UNCHANGED <<authvars, batch, restvars>>

\* select_for_update().filter(post=post, user=user).first()
Read(r) ==
    /\ rq[r].pc = "read"
    /\ LET row == First(Pair(rq[r].user, rq[r].post))
           along == {o \in Reqs \ {r} :
                        /\ rq[o].pc \in Critical
                        /\ rq[o].user = rq[r].user
                        /\ rq[o].post = rq[r].post}
       IN /\ row \notin LockedByOther(r)
          /\ rq' = [o \in Reqs |->
                      IF o = r
                      THEN [rq[r] EXCEPT !.pc = "write",
                                         !.existing_like = row,
                                         !.raced = (along # {})]
                      ELSE IF o \in along
                      THEN [rq[o] EXCEPT !.raced = TRUE]
                      ELSE rq[o]]
    /\ UNCHANGED <<dbvars, ops, direct, wsvars, log, nth>>
    /\ UNCHANGED <<authvars, batch, restvars>>

\* existing_like.delete()  or  serializer.save(user=user)
Write(r) ==
    /\ rq[r].pc = "write"
    /\ LET u == rq[r].user
           p == rq[r].post
       IN IF Found(rq[r].existing_like)
          THEN /\ rq' = [rq EXCEPT ![r].pc = "count",
                                   ![r].response = HTTP_204_NO_CONTENT]
               /\ UNCHANGED nextId
          ELSE /\ ~InsertWaits(r, u, p)
               /\ IF unique_like(u, p)
                  THEN /\ rq' = [rq EXCEPT
                               ![r].pc = "count",
                               ![r].created =
                                   [id |-> nextId, user |-> u, post |-> p],
                               ![r].response = HTTP_201_CREATED]
                       /\ nextId' = nextId + 1
                  ELSE \* IntegrityError, caught by "except IntegrityError"
                       /\ rq' = [rq EXCEPT ![r].pc = "recover"]
                       /\ UNCHANGED nextId
    /\ UNCHANGED <<users, posts, published, likes, ops, direct, wsvars, log, nth>>
    /\ UNCHANGED <<authvars, batch, restvars>>

\* a recovery whose DELETE runs in the still-open transaction
RecoverByDelete(r) ==
    /\ rq[r].pc = "recover"
    /\ rq' = [rq EXCEPT ![r].pc = "count",
                        ![r].existing_like =
                            First(Pair(rq[r].user, rq[r].post)),
                        ![r].response = HTTP_204_NO_CONTENT]
    /\ UNCHANGED <<dbvars, ops, direct, wsvars, log, nth>>
    /\ UNCHANGED <<authvars, batch, restvars>>

\* except IntegrityError: self.get_queryset().filter(...).delete()
\* The failed INSERT has marked the connection needs_rollback, so the
\* DELETE raises TransactionManagementError; it leaves the atomic block,
\* which rolls back, and the request ends in a 500.
Recover(r) ==
    /\ rq[r].pc = "recover"
    /\ rq' = [rq EXCEPT ![r].pc = "done",
                        ![r].response = HTTP_500_INTERNAL_SERVER_ERROR]
    /\ UNCHANGED <<dbvars, ops, direct, wsvars, log, nth>>
    /\ UNCHANGED <<authvars, batch, restvars>>

\* like_count = Like.objects.filter(post=post).count()
Count(r) ==
    /\ rq[r].pc = "count"
    /\ rq' = [rq EXCEPT ![r].pc = "commit",
                        ![r].like_count = LikeCount(r, rq[r].post)]
    /\ UNCHANGED <<dbvars, ops, direct, wsvars, log, nth>>
    /\ UNCHANGED <<authvars, batch, restvars>>

\* a commit that validates the post again and rolls back if it has been
\* unpublished
CommitPublished(r) ==
    /\ rq[r].pc = "commit"
    /\ IF \/ rq[r].created # NoLike
             /\ (rq[r].user \notin users \/ rq[r].post \notin posts)
          \/ ~published[rq[r].post]
       THEN /\ rq' = [rq EXCEPT ![r].pc = "done",
                                ![r].created = NoLike,
                                ![r].response = HTTP_400_BAD_REQUEST]
            /\ UNCHANGED likes
       ELSE /\ rq' = [rq EXCEPT ![r].pc = "bcast"]
            /\ likes' = (likes \ {rq[r].existing_like})
                            \cup ({rq[r].created} \ {NoLike})
    /\ UNCHANGED <<users, posts, published, nextId, ops, direct, wsvars, log, nth>>
    /\ UNCHANGED <<authvars, batch, restvars>>

\* leaving "with transaction.atomic()": COMMIT.  The deferred foreign keys
\* of an inserted row are checked here; a violation rolls back and raises.
\* unpublished records whether the post was unpublished at that moment.
Commit(r) ==
    /\ rq[r].pc = "commit"
    /\ IF /\ rq[r].created # NoLike
          /\ (rq[r].user \notin users \/ rq[r].post \notin posts)
       THEN /\ rq' = [rq EXCEPT ![r].pc = "done",
                                ![r].created = NoLike,
                                ![r].response = HTTP_500_INTERNAL_SERVER_ERROR]
            /\ UNCHANGED likes
       ELSE /\ rq' = [rq EXCEPT ![r].pc = "bcast",
                                ![r].unpublished = ~published[rq[r].post]]
            /\ likes' = (likes \ {rq[r].existing_like})
                            \cup ({rq[r].created} \ {NoLike})
    /\ UNCHANGED <<users, posts, published, nextId, ops, direct, wsvars, log, nth>>
    /\ UNCHANGED <<authvars, batch, restvars>>

\* broadcast_like_update(post.id, user.id, like_count); return response
Broadcast(r, ok) ==
    /\ rq[r].pc = "bcast"
    /\ LET e == [post_id |-> Str(rq[r].post),
                 like_count |-> Str(rq[r].like_count),
                 user_id |-> rq[r].user]
       IN IF ok
          THEN /\ \A c \in group : Len(chan[c]) < MaxChan
               /\ chan' = [c \in Conns |->
                             IF c \in group THEN Append(chan[c], e)
                             ELSE chan[c]]
               /\ rq' = [rq EXCEPT
                           ![r].pc = "done", ![r].sends = @ + 1,
                           ![r].event = e,
                           ![r].response = ResponseAfterBroadcast(@, ok)]
               /\ UNCHANGED log
          ELSE /\ log' = log + 1
               /\ rq' = [rq EXCEPT
                           ![r].pc = "done", ![r].sends = @ + 1,
                           ![r].failed = TRUE,
                           ![r].response = ResponseAfterBroadcast(@, ok)]
               /\ UNCHANGED chan
    /\ UNCHANGED <<dbvars, ops, direct, group, received, dropped, nth>>
    /\ UNCHANGED <<authvars, batch, restvars>>


\* ------------------------------------------------- other writers of Like
\* Like.objects.create(user=u, post=p) outside the toggle path (autocommit)
DirectInsert(u, p) ==
    /\ ops < MaxOps
    /\ ops' = ops + 1
    /\ u \in users /\ p \in posts
    /\ nextId <= MaxId
    /\ ~InsertWaits(0, u, p)
    /\ IF unique_like(u, p)
       THEN /\ likes' = likes \cup {[id |-> nextId, user |-> u, post |-> p]}
            /\ nextId' = nextId + 1
            /\ direct' = [at |-> ops + 1, outcome |-> "created"]
       ELSE /\ direct' = [at |-> ops + 1, outcome |-> "IntegrityError"]
            /\ UNCHANGED <<likes, nextId>>
    /\ UNCHANGED <<users, posts, published, rq, wsvars, log, nth>>
    /\ UNCHANGED <<authvars, batch, restvars>>

\* PostAPIView.perform_create: serializer.save(author=request.user).  A new
\* post takes an id no request in progress refers to (ids are not reused).
CreatePost(p, b) ==
    /\ ops < MaxOps
    /\ ops' = ops + 1
    /\ p \notin posts
    /\ author[p] \in users
    /\ \A r \in Reqs : rq[r].pc \in {"idle", "done"} \/ rq[r].post # p
    /\ posts' = posts \cup {p}
    /\ published' = [published EXCEPT ![p] = b]
    /\ UNCHANGED <<users, likes, nextId, rq, direct, wsvars, log, nth>>
    /\ UNCHANGED <<authvars, batch, restvars>>

\* a deletion of the post row that leaves its Like rows
DeletePostNoCascade(p) ==
    /\ ops < MaxOps
    /\ ops' = ops + 1
    /\ p \in posts
    /\ posts' = posts \ {p}
    /\ UNCHANGED <<users, likes, published, nextId, rq, direct, wsvars, log, nth>>
    /\ UNCHANGED <<authvars, batch, restvars>>

\* Post.delete(): Like.post is on_delete=CASCADE.  The DELETE of a Like row
\* waits while another transaction holds its row lock.
DeletePost(p) ==
    /\ ops < MaxOps
    /\ ops' = ops + 1
    /\ p \in posts
    /\ LET gone == {l \in likes : l.post = p}
       IN /\ gone \cap LockedByOther(0) = {}
          /\ likes' = likes \ gone
    /\ posts' = posts \ {p}
    /\ UNCHANGED <<users, published, nextId, rq, direct, wsvars, log, nth>>
    /\ UNCHANGED <<authvars, batch, restvars>>

\* UserDetailAPIView.destroy: blacklist_user_tokens(user) and
\* CustomUser.delete() in one transaction.  Post.author and Like.user are
\* on_delete=CASCADE, OutstandingToken.user is on_delete=SET_NULL.  The
\* DELETE of the user row waits for a password transaction that has
\* updated it.
DeleteUser(u) ==
    /\ ops < MaxOps
    /\ ops' = ops + 1
    /\ u \in users
    /\ tx.pc = "idle" \/ tx.user # u
    /\ LET own == {p \in posts : author[p] = u}
           gone == {l \in likes : l.user = u \/ l.post \in own}
       IN /\ gone \cap LockedByOther(0) = {}
          /\ likes' = likes \ gone
          /\ posts' = posts \ own
    /\ users' = users \ {u}
    /\ blacklisted' = blacklist_user_tokens(outstanding, blacklisted, u)
    /\ outstanding' = SetNull(outstanding, u)
    /\ UNCHANGED <<published, nextId, rq, direct, wsvars, log, nth>>
    /\ UNCHANGED <<age, issued, password, mail, nextJti, rf, tx, auth, batch, restvars>>

\* PostDetailAPIView update of the published flag by the author
SetPublished(p, b) ==
    /\ ops < MaxOps
    /\ ops' = ops + 1
    /\ p \in posts
    /\ published[p] # b
    /\ published' = [published EXCEPT ![p] = b]
    /\ UNCHANGED <<users, posts, likes, nextId, rq, direct, wsvars, log, nth>>
    /\ UNCHANGED <<authvars, batch, restvars>>

\* ------------------------------------------------------- LikeConsumer
\* connect(): group_add("likes", channel_name); accept().  scope["user"] was
\* resolved by AuthMiddlewareStack when the socket was opened.
connect(c, u) ==
    /\ ops < MaxOps
    /\ ops' = ops + 1
    /\ c \notin group
    /\ u \in users \cup {Anon}
    /\ group' = group \cup {c}
    /\ chan' = [chan EXCEPT ![c] = <<>>]
    /\ received' = [received EXCEPT ![c] = [scope |-> u, frames |-> <<>>]]
    /\ dropped' = [dropped EXCEPT ![c] = <<>>]
    /\ UNCHANGED <<dbvars, rq, direct, log, nth>>
    /\ UNCHANGED <<authvars, batch, restvars>>

\* disconnect(): group_discard("likes", channel_name); the consumer stops
\* and the events still queued on its channel are never handled
disconnect(c) ==
    /\ c \in group
    /\ group' = group \ {c}
    /\ chan' = [chan EXCEPT ![c] = <<>>]
    /\ UNCHANGED <<dbvars, rq, ops, direct, received, dropped, log, nth>>
    /\ UNCHANGED <<authvars, batch, restvars>>

\* like_message(event)
like_message(c) ==
    /\ c \in group
    /\ chan[c] # <<>>
    /\ LET event == Head(chan[c])
           current_user_id == received[c].scope
       IN IF Forward(current_user_id, event.user_id)
          THEN /\ received' = [received EXCEPT ![c].frames =
                      Append(@, [post_id |-> event.post_id,
                                 like_count |-> event.like_count,
                                 by |-> event.user_id])]
               /\ UNCHANGED dropped
          ELSE /\ dropped' = [dropped EXCEPT ![c] = Append(@, event)]
               /\ UNCHANGED received
    /\ chan' = [chan EXCEPT ![c] = Tail(@)]
    /\ UNCHANGED <<dbvars, rq, ops, direct, group, log, nth>>
    /\ UNCHANGED <<authvars, batch, restvars>>

\* ------------------------------------------------------ token endpoints
\* TokenObtainPairView: authenticate, then RefreshToken.for_user(user),
\* which creates the OutstandingToken record
Login(u, pw) ==
    /\ ops < MaxOps
    /\ ops' = ops + 1
    /\ IF u \in users /\ pw = password[u]
       THEN /\ outstanding' = outstanding \cup {[jti |-> nextJti, user |-> u]}
            /\ issued' = issued \cup {RefreshToken(nextJti, u),
                                      AccessToken(nextJti, u)}
            /\ nextJti' = nextJti + 1
            /\ auth' = Answer(ops + 1, "login", u, HTTP_200_OK, 0, nextJti)
       ELSE /\ auth' = Answer(ops + 1, "login", u, HTTP_401_UNAUTHORIZED, 0, 0)
            /\ UNCHANGED <<outstanding, issued, nextJti>>
    /\ UNCHANGED <<blacklisted, age, password, mail, rf, tx>>
    /\ UNCHANGED <<dbvars, rq, direct, wsvars, log, nth, batch, restvars>>

\* MyTokenRefreshSerializer.validate: refresh = self.token_class(...)
RefreshVerify(r, t) ==
    /\ rf[r].pc = "idle"
    /\ \A o \in Reqs : o < r => rf[o].pc # "idle"
    /\ ops < MaxOps
    /\ ops' = ops + 1
    /\ t \in issued
    /\ IF Verifies(t)
       THEN /\ rf' = [rf EXCEPT ![r] = [pc |-> "blacklist", refresh |-> t,
                                        at |-> ops + 1]]
            /\ UNCHANGED auth
       ELSE /\ auth' = Answer(ops + 1, "refresh", t.user,
                              HTTP_401_UNAUTHORIZED, t.jti, 0)
            /\ UNCHANGED rf
    /\ UNCHANGED <<outstanding, blacklisted, age, issued, password, mail,
                   nextJti, tx>>
    /\ UNCHANGED <<dbvars, rq, direct, wsvars, log, nth, batch, restvars>>

\* refresh.blacklist(): get_or_create of the OutstandingToken record of
\* the presented token and of its BlacklistedToken
RefreshBlacklist(r) ==
    /\ rf[r].pc = "blacklist"
    /\ LET t == rf[r].refresh
       IN /\ ~BlacklistWaits({t.jti})
          /\ outstanding' =
                IF \E o \in outstanding : o.jti = t.jti THEN outstanding
                ELSE outstanding \cup
                        {[jti |-> t.jti,
                          user |-> IF t.user \in users THEN t.user
                                   ELSE NoUser]}
          /\ blacklisted' =
                [blacklisted EXCEPT ![t.jti] = IF @ = 0 THEN 1 ELSE @]
    /\ rf' = [rf EXCEPT ![r].pc = "create"]
    /\ UNCHANGED <<age, issued, password, mail, nextJti, tx, auth>>
    /\ UNCHANGED <<dbvars, rq, ops, direct, wsvars, log, nth, batch, restvars>>

\* set_jti(), set_exp(), set_iat(); CustomUser.objects.get(id=user_id);
\* OutstandingToken.objects.create(...); return data
RefreshCreate(r) ==
    /\ rf[r].pc = "create"
    /\ LET t == rf[r].refresh
       IN IF t.user \in users
          THEN /\ outstanding' = RotatedLedger(outstanding, nextJti, t.user)
               /\ issued' = issued \cup {RefreshToken(nextJti, t.user),
                                         AccessToken(nextJti, t.user)}
               /\ nextJti' = nextJti + 1
               /\ auth' = Answer(rf[r].at, "refresh", t.user, HTTP_200_OK,
                                 t.jti, nextJti)
          ELSE \* CustomUser.DoesNotExist is not handled
               /\ auth' = Answer(rf[r].at, "refresh", t.user,
                                 HTTP_500_INTERNAL_SERVER_ERROR, t.jti, 0)
               /\ UNCHANGED <<outstanding, issued, nextJti>>
    /\ rf' = [rf EXCEPT ![r] = IdleRefresh]
    /\ UNCHANGED <<blacklisted, age, password, mail, tx>>
    /\ UNCHANGED <<dbvars, rq, ops, direct, wsvars, log, nth, batch, restvars>>

\* TokenRecoveryAPIView.post; user e has the email address e, and the
\* address NoUser belongs to nobody
Recovery(e) ==
    /\ ops < MaxOps
    /\ ops' = ops + 1
    /\ IF e \in users
       THEN /\ ~BlacklistWaits({t.jti : t \in {x \in outstanding : x.user = e}})
            /\ LET ledger == RecoveryLedger(outstanding, blacklisted, e,
                                            nextJti)
               IN /\ outstanding' = ledger.outstanding
                  /\ blacklisted' = ledger.blacklisted
            /\ mail' = mail \cup {[to |-> e, access |-> AccessToken(nextJti, e)]}
            /\ issued' = issued \cup {AccessToken(nextJti, e)}
            /\ nextJti' = nextJti + 1
            /\ auth' = Answer(ops + 1, "recovery", e, HTTP_200_OK, 0, 0)
       ELSE /\ auth' = Answer(ops + 1, "recovery", e, HTTP_404_NOT_FOUND, 0, 0)
            /\ UNCHANGED <<outstanding, blacklisted, mail, issued, nextJti>>
    /\ UNCHANGED <<age, password, rf, tx>>
    /\ UNCHANGED <<dbvars, rq, direct, wsvars, log, nth, batch, restvars>>

\* a password update that is visible before the transaction commits
SetPasswordAtOnce(pw, user, new_password) ==
    [pw EXCEPT ![user] = new_password]

\* user.set_password(...); user.save() inside transaction.atomic(): the
\* committed password is unchanged until the transaction commits
SetPasswordInTransaction(pw, user, new_password) == pw

\* PasswordChangeAPIView.post (kind "change") and PasswordResetAPIView.post
\* (kind "reset") up to the end of the atomic block: authentication,
\* serializer validation, set_password, save, blacklist_user_tokens
PasswordWrite(kind, t, old_password, new_password) ==
    /\ tx.pc = "idle"
    /\ ops < MaxOps
    /\ ops' = ops + 1
    /\ t \in issued \cup {NoToken}
    /\ IF ~Authenticates(t)
       THEN /\ auth' = Answer(ops + 1, kind, t.user, HTTP_401_UNAUTHORIZED,
                              t.jti, 0)
            /\ UNCHANGED <<tx, password>>
       ELSE IF kind = "change" /\ old_password # password[t.user]
       THEN /\ auth' = Answer(ops + 1, kind, t.user, HTTP_400_BAD_REQUEST,
                              t.jti, 0)
            /\ UNCHANGED <<tx, password>>
       ELSE /\ tx' = [pc |-> "commit", kind |-> kind, user |-> t.user,
                      at |-> ops + 1, access |-> t.jti,
                      new_password |-> new_password,
                      tokens_to_blacklist |->
                          {j \in Jtis :
                              blacklist_user_tokens(outstanding, blacklisted,
                                                    t.user)[j]
                                  > blacklisted[j]}]
            /\ password' = SetPasswordInTransaction(password, t.user,
                                                    new_password)
            /\ UNCHANGED auth
    /\ UNCHANGED <<outstanding, blacklisted, age, issued, mail, nextJti, rf>>
    /\ UNCHANGED <<dbvars, rq, direct, wsvars, log, nth, batch, restvars>>

\* leaving "with transaction.atomic()": COMMIT.  The deferred foreign key
\* of a new BlacklistedToken fails when its OutstandingToken record has
\* been deleted meanwhile; the transaction is rolled back.
PasswordCommit ==
    /\ tx.pc = "commit"
    /\ IF \E j \in tx.tokens_to_blacklist :
             \A o \in outstanding : o.jti # j
       THEN /\ auth' = Answer(tx.at, tx.kind, tx.user,
                              HTTP_500_INTERNAL_SERVER_ERROR, tx.access, 0)
            /\ UNCHANGED <<password, blacklisted>>
       ELSE /\ password' = [password EXCEPT ![tx.user] = tx.new_password]
            /\ blacklisted' =
                  [j \in Jtis |-> IF j \in tx.tokens_to_blacklist THEN 1
                                  ELSE blacklisted[j]]
            /\ auth' = Answer(tx.at, tx.kind, tx.user, HTTP_200_OK,
                              tx.access, 0)
    /\ tx' = IdleTx
    /\ UNCHANGED <<outstanding, age, issued, mail, nextJti, rf>>
    /\ UNCHANGED <<dbvars, rq, ops, direct, wsvars, log, nth, batch, restvars>>

\* time passes: the exp claim of a token is reached
Expire(j) ==
    /\ j < nextJti
    /\ age[j] < 2
    /\ age' = [age EXCEPT ![j] = @ + 1]
    /\ UNCHANGED <<outstanding, blacklisted, issued, password, mail,
                   nextJti, rf, tx, auth>>
    /\ UNCHANGED <<dbvars, rq, ops, direct, wsvars, log, nth, batch, restvars>>

\* flush_expired_tokens(): call_command("flushexpiredtokens")
flush_expired_tokens ==
    /\ \E t \in outstanding : RefreshExpired(t.jti)
    /\ LET ledger == Flushed(outstanding, blacklisted)
       IN /\ outstanding' = ledger.outstanding
          /\ blacklisted' = ledger.blacklisted
    /\ UNCHANGED <<age, issued, password, mail, nextJti, rf, tx, auth>>
    /\ UNCHANGED <<dbvars, rq, ops, direct, wsvars, log, nth, batch, restvars>>

\* ------------------------------------------------------ LikeBatchAPIView
\* LikeBatchAPIView.get
LikeBatch(u, ids) ==
    /\ ops < MaxOps
    /\ batch.n < MaxBatch
    /\ ops' = ops + 1
    /\ LET ids_param == QueryIds(ids)
           parsed == ParseIds(ids_param)
           answer == [n |-> batch.n + 1, user |-> u, ids |-> ids,
                      status |-> HTTP_200_OK, data |-> <<>>]
       IN IF ids_param = << <<>> >>
          THEN batch' = answer
          ELSE IF ~parsed.ok
          THEN batch' = [answer EXCEPT !.status = HTTP_400_BAD_REQUEST]
          ELSE batch' =
                 [answer EXCEPT !.data =
                     [k \in {Str(p) : p \in BatchPosts(parsed.post_ids)} |->
                         [count |-> BatchCount(k.str),
                          liked |-> BatchLiked(u, k.str)]]]
    /\ UNCHANGED <<dbvars, rq, direct, wsvars, log, nth, authvars, restvars>>

\* ------------------------------------------------------------ accounts
\* None in a nullable DateTimeField, a key the cache does not hold
Null == -1
\* "" in pending_email
NoEmail == 0
\* "" in email_verification_token
NoUuid == 0
\* a token no verification email carried
UnknownUuid == 99
\* addresses, lowercased: user u registered with address u, one is free
Emails == 1..(MaxUser + 1)
\* usernames: user u registered with name u, one is free
Names == 1..(MaxUser + 1)

\* timedelta(hours=24) in EmailChangeAPIView.post
EMAIL_TOKEN_HOURS == 24

\* the CustomUser row of user u after registration
NewAccount(u) ==
    [email |-> u, pending_email |-> NoEmail,
     email_verification_token |-> NoUuid,
     email_verification_expires |-> Null,
     username |-> u, username_last_changed |-> Null]

NoReply == [n |-> 0, kind |-> "none", user |-> NoUser, status |-> 0,
            token |-> NoUuid, data |-> <<>>]

Reply(kind, user, status, token) ==
    [n |-> reply.n + 1, kind |-> kind, user |-> user, status |-> status,
     token |-> token, data |-> <<>>]

\* CustomUser.objects.filter(email__iexact=normalized_email).exists()
EmailTaken(a) == \E v \in users : account[v].email = a

\* the UNIQUE constraint on CustomUser.email, checked by user.save()
EmailUnique(u, a) == \A v \in users \ {u} : account[v].email # a

\* EmailChangeAPIView.post with EmailChangeSerializer
EmailChange(u, pw, a) ==
    /\ reply.n < MaxAcct
    /\ u \in users
    /\ IF pw # password[u] \/ account[u].email = a \/ EmailTaken(a)
       THEN /\ reply' = Reply("change", u, HTTP_400_BAD_REQUEST, NoUuid)
            /\ UNCHANGED <<account, nextUuid>>
       ELSE /\ account' = [account EXCEPT
                  ![u].pending_email = a,
                  ![u].email_verification_token = nextUuid,
                  ![u].email_verification_expires = now + EMAIL_TOKEN_HOURS]
            /\ nextUuid' = nextUuid + 1
            /\ reply' = Reply("change", u, HTTP_200_OK, nextUuid)
    /\ UNCHANGED <<dbvars, rq, ops, hist, wsvars, authvars, batch>>
    /\ UNCHANGED <<now, content, served, cache, mw, writes>>

\* a verification that accepts a token past its expiry
TokenNeverExpires(user) == FALSE

\* EmailVerifySerializer.validate_token: expires < timezone.now()
TokenExpired(user) == account[user].email_verification_expires < now

\* EmailVerifyAPIView.post with EmailVerifySerializer
EmailVerify(token) ==
    /\ reply.n < MaxAcct
    /\ LET found == {u \in users :
                       account[u].email_verification_token = token}
       IN IF found = {}
          THEN /\ reply' = Reply("verify", NoUser, HTTP_400_BAD_REQUEST, token)
               /\ UNCHANGED account
          ELSE LET user == CHOOSE u \in found : TRUE
               IN IF TokenExpired(user)
                  THEN /\ reply' = Reply("verify", user,
                                         HTTP_400_BAD_REQUEST, token)
                       /\ UNCHANGED account
                  ELSE IF ~EmailUnique(user, account[user].pending_email)
                  THEN /\ reply' = Reply("verify", user,
                                         HTTP_500_INTERNAL_SERVER_ERROR, token)
                       /\ UNCHANGED account
                  ELSE /\ account' = [account EXCEPT
                             ![user].email = account[user].pending_email,
                             ![user].pending_email = NoEmail,
                             ![user].email_verification_token = NoUuid,
                             ![user].email_verification_expires = Null]
                       /\ reply' = Reply("verify", user, HTTP_200_OK, token)
    /\ UNCHANGED <<dbvars, rq, ops, hist, wsvars, authvars, batch>>
    /\ UNCHANGED <<now, nextUuid, content, served, cache, mw, writes>>

\* hours pass
Hours(d) ==
    /\ now + d <= MaxHours
    /\ now' = now + d
    /\ UNCHANGED <<dbvars, rq, ops, hist, wsvars, authvars, batch>>
    /\ UNCHANGED <<account, nextUuid, reply, content, served, cache, mw, writes>>

\* UsernameChangeSerializer.USERNAME_CHANGE_COOLDOWN_DAYS
USERNAME_CHANGE_COOLDOWN_DAYS == 30

\* a cooldown that still holds on its last day
CooldownOverLate(user) ==
    \/ account[user].username_last_changed = Null
    \/ now > account[user].username_last_changed
               + USERNAME_CHANGE_COOLDOWN_DAYS

\* UsernameChangeSerializer.validate: not (timezone.now() < cooldown_end)
CooldownOver(user) ==
    \/ account[user].username_last_changed = Null
    \/ ~(now < account[user].username_last_changed
                 + USERNAME_CHANGE_COOLDOWN_DAYS)

\* validate_new_username: filter(username__iexact=value).exclude(pk=user.pk)
UsernameTaken(u, name) == \E v \in users \ {u} : account[v].username = name

\* UsernameChangeAPIView.post with UsernameChangeSerializer
UsernameChange(u, pw, name) ==
    /\ reply.n < MaxName
    /\ u \in users
    /\ IF pw # password[u] \/ UsernameTaken(u, name) \/ ~CooldownOver(u)
       THEN /\ reply' = [Reply("username", u, HTTP_400_BAD_REQUEST, NoUuid)
                           EXCEPT !.data = <<pw, name>>]
            /\ UNCHANGED account
       ELSE /\ account' = [account EXCEPT
                  ![u].username = name,
                  ![u].username_last_changed = now]
            /\ reply' = [Reply("username", u, HTTP_200_OK, NoUuid)
                           EXCEPT !.data = <<pw, name>>]
    /\ UNCHANGED <<dbvars, rq, ops, hist, wsvars, authvars, batch>>
    /\ UNCHANGED <<now, nextUuid, content, served, cache, mw, writes>>

\* days pass
Days(d) ==
    /\ now + d <= MaxDays
    /\ now' = now + d
    /\ UNCHANGED <<dbvars, rq, ops, hist, wsvars, authvars, batch>>
    /\ UNCHANGED <<account, nextUuid, reply, content, served, cache, mw, writes>>

\* ---------------------------------------------------------- post detail
NoServed == [n |-> 0, method |-> "none", user |-> Anon, post |-> 0,
             status |-> 0]

HTTP_403_FORBIDDEN == 403

\* CustomUser.is_staff: the last user is staff
is_staff == [u \in Users |-> u = MaxUser]

\* permissions.SAFE_METHODS
SAFE_METHODS == {"GET", "HEAD", "OPTIONS"}

Served(method, user, post, status) ==
    [n |-> served.n + 1, method |-> method, user |-> user, post |-> post,
     status |-> status]

\* obj.author == request.user or request.user.is_staff
IsOwnerOrStaff(u, p) == u # Anon /\ (author[p] = u \/ is_staff[u])

\* a permission that lets every request through
AllowAny(method, u, p) == TRUE

\* OwnerOrAdminOrReadOnly.has_object_permission
has_object_permission(method, u, p) ==
    method \in SAFE_METHODS \/ IsOwnerOrStaff(u, p)

\* APIView.permission_denied: NotAuthenticated (401, JWTAuthentication
\* names a WWW-Authenticate header) for a request that did not
\* authenticate, PermissionDenied (403) otherwise
Denied(u) == IF u = Anon THEN HTTP_401_UNAUTHORIZED ELSE HTTP_403_FORBIDDEN

\* PostDetailAPIView.update (PUT, PATCH)
PostUpdate(u, p, v) ==
    /\ served.n < MaxServed
    /\ IF p \notin posts
       THEN /\ served' = Served("PUT", u, p, HTTP_404_NOT_FOUND)
            /\ UNCHANGED content
       ELSE IF ~has_object_permission("PUT", u, p)
       THEN /\ served' = Served("PUT", u, p, Denied(u))
            /\ UNCHANGED content
       ELSE /\ content' = [content EXCEPT ![p] = v]
            /\ served' = Served("PUT", u, p, HTTP_200_OK)
    /\ UNCHANGED <<dbvars, rq, ops, hist, wsvars, authvars, batch>>
    /\ UNCHANGED <<account, now, nextUuid, reply, cache, mw, writes>>

\* PostDetailAPIView.destroy (DELETE); Like.post is on_delete=CASCADE
PostDestroy(u, p) ==
    /\ served.n < MaxServed
    /\ IF p \notin posts
       THEN /\ served' = Served("DELETE", u, p, HTTP_404_NOT_FOUND)
            /\ UNCHANGED <<posts, likes>>
       ELSE IF ~has_object_permission("DELETE", u, p)
       THEN /\ served' = Served("DELETE", u, p, Denied(u))
            /\ UNCHANGED <<posts, likes>>
       ELSE /\ LET gone == {l \in likes : l.post = p}
               IN /\ gone \cap LockedByOther(0) = {}
                  /\ likes' = likes \ gone
            /\ posts' = posts \ {p}
            /\ served' = Served("DELETE", u, p, HTTP_204_NO_CONTENT)
    /\ UNCHANGED <<users, published, nextId, rq, ops, hist, wsvars>>
    /\ UNCHANGED <<authvars, batch>>
    /\ UNCHANGED <<account, now, nextUuid, reply, content, cache, mw, writes>>

\* PostDetailAPIView.retrieve (GET)
PostRetrieve(u, p) ==
    /\ served.n < MaxServed
    /\ IF p \notin posts
       THEN served' = Served("GET", u, p, HTTP_404_NOT_FOUND)
       ELSE IF ~has_object_permission("GET", u, p)
       THEN served' = Served("GET", u, p, Denied(u))
       ELSE IF ~published[p] /\ ~IsOwnerOrStaff(u, p)
       THEN served' = Served("GET", u, p, HTTP_403_FORBIDDEN)
       ELSE served' = Served("GET", u, p, HTTP_200_OK)
    /\ UNCHANGED <<dbvars, rq, ops, hist, wsvars, authvars, batch>>
    /\ UNCHANGED <<account, now, nextUuid, reply, content, cache, mw, writes>>

\* ------------------------------------------------------------ middleware
IdleMw == [pc |-> "idle", user |-> NoUser]

\* UserLastRequestMiddleware.UPDATE_INTERVAL_SECONDS
UPDATE_INTERVAL_SECONDS == 60

\* cache.get(cache_key): the key is held until its timeout has passed
KeyPresent(u) == cache[u] # Null /\ now < cache[u]

\* __call__ after get_response, for an authenticated user, up to
\* cache.get(cache_key): return if the key exists
MwGet(r, u) ==
    /\ mw.n < MaxMw
    /\ mw.slot[r].pc = "idle"
    /\ \A o \in Reqs : o < r => mw.slot[o].pc # "idle"
    /\ u \in users
    /\ IF KeyPresent(u)
       THEN mw' = [mw EXCEPT !.n = @ + 1]
       ELSE mw' = [mw EXCEPT !.n = @ + 1,
                             !.slot[r] = [pc |-> "update", user |-> u]]
    /\ UNCHANGED <<dbvars, rq, ops, hist, wsvars, authvars, batch>>
    /\ UNCHANGED <<account, now, nextUuid, reply, content, served, cache, writes>>

\* objects.filter(pk=user.pk).update(last_request=now)
MwUpdate(r) ==
    /\ mw.slot[r].pc = "update"
    /\ writes' = [writes EXCEPT ![mw.slot[r].user] = Append(@, now)]
    /\ mw' = [mw EXCEPT !.slot[r].pc = "set"]
    /\ UNCHANGED <<dbvars, rq, ops, hist, wsvars, authvars, batch>>
    /\ UNCHANGED <<account, now, nextUuid, reply, content, served, cache>>

\* cache.set(cache_key, True, timeout=self.UPDATE_INTERVAL_SECONDS)
MwSet(r) ==
    /\ mw.slot[r].pc = "set"
    /\ cache' = [cache EXCEPT ![mw.slot[r].user] = now + UPDATE_INTERVAL_SECONDS]
    /\ mw' = [mw EXCEPT !.slot[r] = IdleMw]
    /\ UNCHANGED <<dbvars, rq, ops, hist, wsvars, authvars, batch>>
    /\ UNCHANGED <<account, now, nextUuid, reply, content, served, writes>>

\* seconds pass
Seconds(d) ==
    /\ now + d <= MaxSeconds
    /\ now' = now + d
    /\ UNCHANGED <<dbvars, rq, ops, hist, wsvars, authvars, batch>>
    /\ UNCHANGED <<account, nextUuid, reply, content, served, cache, mw, writes>>


\* ------------------------------------------------------- specifications
Init ==
    /\ users = Users
    /\ posts = Posts
    /\ published = [p \in Posts |-> TRUE]
    /\ likes = {}
    /\ nextId = 1
    /\ rq = [r \in Reqs |-> IdleReq]
    /\ ops = 0
    /\ direct = [at |-> 0, outcome |-> "none"]
    /\ group = {}
    /\ chan = [c \in Conns |-> <<>>]
    /\ received = [c \in Conns |-> [scope |-> Anon, frames |-> <<>>]]
    /\ dropped = [c \in Conns |-> <<>>]
    /\ log = 0
    /\ nth = [u \in Users |-> [p \in Posts |-> 0]]
    /\ outstanding = {}
    /\ blacklisted = [j \in Jtis |-> 0]
    /\ age = [j \in Jtis |-> 0]
    /\ issued = {}
    /\ password = [u \in Users |-> 0]
    /\ mail = {}
    /\ nextJti = 1
    /\ rf = [r \in Reqs |-> IdleRefresh]
    /\ tx = IdleTx
    /\ auth = NoAuth
    /\ batch = NoBatch
    /\ account = [u \in Users |-> NewAccount(u)]
    /\ now = 0
    /\ nextUuid = 1
    /\ reply = NoReply
    /\ content = [p \in Posts |-> 0]
    /\ served = NoServed
    /\ cache = [u \in Users |-> Null]
    /\ mw = [n |-> 0, slot |-> [r \in Reqs |-> IdleMw]]
    /\ writes = [u \in Users |-> <<>>]

Toggle(r) ==
    \/ \E u \in users \cup {Anon} :
         \E p \in Posts \cup {MissingPost, NonexistentPost} : Start(r, u, p)
    \/ Read(r)
    \/ Write(r)
    \/ Recover(r)
    \/ Count(r)
    \/ Commit(r)
    \/ \E ok \in BOOLEAN : Broadcast(r, ok)

Next ==
    \/ \E r \in Reqs : Toggle(r)
    \/ \E u \in Users : \E p \in Posts : DirectInsert(u, p)
    \/ \E p \in Posts : DeletePost(p)
    \/ \E u \in Users : DeleteUser(u)
    \/ \E p \in Posts : \E b \in BOOLEAN : SetPublished(p, b)

Spec == Init /\ [][Next]_vars

\* toggles, direct inserts, deletions and post creations
NextData ==
    \/ Next
    \/ \E p \in Posts : \E b \in BOOLEAN : CreatePost(p, b)

SpecData == Init /\ [][NextData]_vars

\* email changes and verifications, one request at a time, as hours pass
NextEmail ==
    \/ \E u \in Users : \E pw \in Passwords : \E a \in Emails :
         EmailChange(u, pw, a)
    \/ \E token \in {t \in 1..MaxAcct : t < nextUuid} \cup {UnknownUuid} :
         EmailVerify(token)
    \/ \E d \in {1, EMAIL_TOKEN_HOURS} : Hours(d)

SpecEmail == Init /\ [][NextEmail]_vars

\* username changes as days pass
NextName ==
    \/ \E u \in Users : \E pw \in Passwords : \E name \in Names :
         UsernameChange(u, pw, name)
    \/ \E d \in {1, USERNAME_CHANGE_COOLDOWN_DAYS - 1} : Days(d)

SpecName == Init /\ [][NextName]_vars

\* the post detail endpoint, with posts published and unpublished
NextPost ==
    \/ \E u \in users \cup {Anon} : \E p \in Posts :
         \/ \E v \in 0..MaxEdit : PostUpdate(u, p, v)
         \/ PostDestroy(u, p)
         \/ PostRetrieve(u, p)
    \/ \E u \in Users : \E p \in Posts : DirectInsert(u, p)
    \/ \E p \in Posts : \E b \in BOOLEAN : SetPublished(p, b)

SpecPost == Init /\ [][NextPost]_vars

\* authenticated requests passing the middleware, overlapping, as seconds
\* pass
NextMw ==
    \/ \E r \in Reqs : \E u \in Users : MwGet(r, u)
    \/ \E r \in Reqs : MwUpdate(r)
    \/ \E r \in Reqs : MwSet(r)
    \/ \E d \in {UPDATE_INTERVAL_SECONDS - 1, UPDATE_INTERVAL_SECONDS} :
         Seconds(d)

SpecMw == Init /\ [][NextMw]_vars

\* toggles only
NextToggle == \E r \in Reqs : Toggle(r)

SpecToggle == Init /\ [][NextToggle]_vars

\* toggles on one post issued one after another: a request is received
\* only when no other request on the same post is in progress
StartSeq(r, u, p) ==
    /\ \A o \in Reqs : rq[o].pc \notin {"idle", "done"} => rq[o].post # p
    /\ Start(r, u, p)

NextSeq ==
    \E r \in Reqs :
        \/ \E u \in users \cup {Anon} :
             \E p \in Posts \cup {MissingPost, NonexistentPost} :
                StartSeq(r, u, p)
        \/ Read(r)
        \/ Write(r)
        \/ Count(r)
        \/ Commit(r)
        \/ \E ok \in BOOLEAN : Broadcast(r, ok)

SpecSeq == Init /\ [][NextSeq]_vars

\* the token endpoints, account deletion, the clock and the flush task
Refresh(r) ==
    \/ \E t \in issued : RefreshVerify(r, t)
    \/ RefreshBlacklist(r)
    \/ RefreshCreate(r)

NextAuth ==
    \/ \E u \in Users : \E pw \in Passwords : Login(u, pw)
    \/ \E r \in Reqs : Refresh(r)
    \/ \E e \in Users \cup {NoUser} : Recovery(e)
    \/ \E kind \in {"change", "reset"} : \E t \in issued \cup {NoToken} :
         \E old_password \in Passwords : \E new_password \in Passwords :
            PasswordWrite(kind, t, old_password, new_password)
    \/ PasswordCommit
    \/ \E u \in Users : DeleteUser(u)
    \/ \E j \in Jtis : Expire(j)
    \/ flush_expired_tokens

SpecAuth == Init /\ [][NextAuth]_vars

\* the token endpoints called one after another: a request is received
\* only when no other request of these endpoints is in progress
Quiet == tx.pc = "idle" /\ \A r \in Reqs : rf[r].pc = "idle"

NextAuthSeq ==
    \/ Quiet /\ \E u \in Users : \E pw \in Passwords : Login(u, pw)
    \/ Quiet /\ \E r \in Reqs : \E t \in issued : RefreshVerify(r, t)
    \/ \E r \in Reqs : RefreshBlacklist(r)
    \/ \E r \in Reqs : RefreshCreate(r)
    \/ Quiet /\ \E e \in Users \cup {NoUser} : Recovery(e)
    \/ Quiet /\ \E kind \in {"change", "reset"} :
         \E t \in issued \cup {NoToken} :
           \E old_password \in Passwords : \E new_password \in Passwords :
              PasswordWrite(kind, t, old_password, new_password)
    \/ PasswordCommit
    \/ Quiet /\ \E u \in Users : DeleteUser(u)
    \/ \E j \in Jtis : Expire(j)
    \/ flush_expired_tokens

SpecAuthSeq == Init /\ [][NextAuthSeq]_vars

\* the batch endpoint over the likes, posts and users as they change
NextBatch ==
    \/ \E u \in Users : \E p \in Posts : DirectInsert(u, p)
    \/ \E p \in Posts : DeletePost(p)
    \/ \E u \in Users : DeleteUser(u)
    \/ \E p \in Posts : \E b \in BOOLEAN : SetPublished(p, b)
    \/ \E u \in users \cup {Anon} : \E ids \in IdsParams : LikeBatch(u, ids)

SpecBatch == Init /\ [][NextBatch]_vars

\* toggles and WebSocket connections
NextWS ==
    \/ \E r \in Reqs : Toggle(r)
    \/ \E c \in Conns : \E u \in Users \cup {Anon} : connect(c, u)
    \/ \E c \in Conns : disconnect(c)
    \/ \E c \in Conns : like_message(c)

SpecWS == Init /\ [][NextWS]_vars

\* ------------------------------------------------------------ properties
Validated(r) == rq[r].k > 0
Odd(n) == n % 2 = 1

\* C1: the Like table never holds two rows of one (user, post) pair, and a
\* direct create either adds one row of a pair that had none or is rejected
\* with IntegrityError and leaves the table unchanged.
DirectStep == direct'.at = ops + 1

C1_AtMostOneLikePerPair ==
    /\ [](\A l \in likes : \A m \in likes :
            (l.user = m.user /\ l.post = m.post) => l = m)
    /\ [][DirectStep =>
            \/ direct'.outcome = "IntegrityError" /\ likes' = likes
            \/ /\ direct'.outcome = "created"
               /\ \E row \in likes' \ likes :
                    /\ likes' = likes \cup {row}
                    /\ Pair(row.user, row.post) = {}]_vars

C1_Witness ==
    /\ direct.outcome = "IntegrityError"
    /\ \E r \in Reqs : rq[r].response = HTTP_500_INTERNAL_SERVER_ERROR
    /\ likes # {}


\* C2: toggles of one (user, post) issued one after another, from no row:
\* the k-th call answers 201 with the persisted record when k is odd and 204
\* when k is even, and once n calls are through a row of exactly that pair
\* exists iff n is odd.
C2_SequentialAlternation ==
    /\ \A r \in Reqs :
         (Validated(r) /\ rq[r].pc \in {"bcast", "done"}) =>
            IF Odd(rq[r].k)
            THEN /\ rq[r].response = HTTP_201_CREATED
                 /\ rq[r].created.user = rq[r].user
                 /\ rq[r].created.post = rq[r].post
            ELSE /\ rq[r].response = HTTP_204_NO_CONTENT
                 /\ rq[r].created = NoLike
    /\ \A u \in Users : \A p \in Posts :
         (\A r \in Reqs : (rq[r].user = u /\ rq[r].post = p)
                              => rq[r].pc \notin InTxn)
            => Cardinality(Pair(u, p)) = (IF Odd(nth[u][p]) THEN 1 ELSE 0)

C2_Witness ==
    \E r \in Reqs : /\ rq[r].k = 3 /\ rq[r].pc = "done"
                    /\ rq[r].response = HTTP_201_CREATED
                    /\ Pair(rq[r].user, rq[r].post) # {}

C4_ToggleAnswers201Or204 ==
    \A r \in Reqs :
        (Validated(r) /\ rq[r].pc = "done")
            => rq[r].response \in {HTTP_201_CREATED, HTTP_204_NO_CONTENT}

\* C5 as stated: no two toggles of one pair are at the same time between
\* their existence read and their commit.
C5_StrictlySerialized ==
    \A r1 \in Reqs : \A r2 \in Reqs \ {r1} :
        (rq[r1].user = rq[r2].user /\ rq[r1].post = rq[r2].post)
            => ~(rq[r1].pc \in Critical /\ rq[r2].pc \in Critical)

\* C5 amended: the row lock serializes the toggles that found the pair's
\* row: no two of them are between read and commit at the same time, and
\* the row a toggle found stays committed until that toggle commits.
C5_SerializedWhenRowExists ==
    /\ \A r1 \in Reqs : \A r2 \in Reqs \ {r1} :
         ( /\ rq[r1].user = rq[r2].user /\ rq[r1].post = rq[r2].post
           /\ rq[r1].pc \in Critical /\ rq[r2].pc \in Critical )
            => ~(Found(rq[r1].existing_like) /\ Found(rq[r2].existing_like))
    /\ \A r \in Reqs :
         (rq[r].pc \in Critical /\ Found(rq[r].existing_like))
            => rq[r].existing_like \in likes

C5_Witness ==
    \E r1 \in Reqs : \E r2 \in Reqs \ {r1} :
        /\ rq[r1].user = rq[r2].user /\ rq[r1].post = rq[r2].post
        /\ rq[r1].pc = "commit" /\ Found(rq[r1].existing_like)
        /\ rq[r2].pc = "read"

\* C6: a rejected toggle (401 anonymous; 400 missing, nonexistent or
\* unpublished post) changes no Like row and sends no broadcast, also when
\* the caller's like on the unpublished post exists.
\* the step in which slot r receives a toggle request
Received(r) ==
    /\ ops' = ops + 1
    /\ direct' = direct /\ group' = group
    /\ users' = users /\ posts' = posts /\ published' = published
    /\ rq[r].pc \in {"idle", "done"}
    /\ \A o \in Reqs : o < r => rq[o].pc \notin {"idle", "done"}

C6_RejectionTouchesNothing ==
    [][\A r \in Reqs :
         Received(r)
         => LET u == rq'[r].user
                p == rq'[r].post
                quiet == /\ rq'[r].pc = "done" /\ rq'[r].sends = 0
                         /\ likes' = likes /\ nextId' = nextId
                         /\ chan' = chan /\ log' = log
            IN /\ u = Anon => (rq'[r].response = HTTP_401_UNAUTHORIZED /\ quiet)
               /\ (u # Anon /\ (p \notin posts \/ ~published[p]))
                    => (rq'[r].response = HTTP_400_BAD_REQUEST /\ quiet)
               /\ rq'[r].response \in {HTTP_400_BAD_REQUEST,
                                       HTTP_401_UNAUTHORIZED} => quiet]_vars

C6_Witness ==
    \E r \in Reqs :
        /\ rq[r].pc = "done" /\ rq[r].response = HTTP_400_BAD_REQUEST
        /\ rq[r].post \in posts /\ ~published[rq[r].post]
        /\ Pair(rq[r].user, rq[r].post) # {}

\* C7: with no other request on the post in between, the batch count read
\* right after a 201 is one more than the count read right before the
\* toggle, after a 204 one less; the caller's liked flag is true after a
\* 201 and false after a 204.
C7_BatchCountFollowsToggle ==
    [][\A r \in Reqs :
         (rq[r].pc = "bcast" /\ rq'[r].pc = "done") =>
            /\ rq'[r].response = HTTP_201_CREATED =>
                 /\ BatchCount(rq[r].post)' = rq[r].count0 + 1
                 /\ BatchLiked(rq[r].user, rq[r].post)'
            /\ rq'[r].response = HTTP_204_NO_CONTENT =>
                 /\ BatchCount(rq[r].post)' = rq[r].count0 - 1
                 /\ ~BatchLiked(rq[r].user, rq[r].post)']_vars

C7_Witness ==
    \E r \in Reqs :
        /\ rq[r].pc = "done" /\ rq[r].response = HTTP_204_NO_CONTENT
        /\ rq[r].count0 = 2 /\ BatchCount(rq[r].post) = 1

\* C8: a toggle that answers 201 or 204 issues exactly one broadcast, after
\* its commit, carrying the post id, the acting user id and the like count
\* it read in its transaction after its own insert or delete.
C8_OneBroadcastAfterCommit ==
    /\ [](\A r \in Reqs :
            /\ rq[r].sends = (IF /\ rq[r].pc = "done"
                                 /\ rq[r].response \in
                                      {HTTP_201_CREATED, HTTP_204_NO_CONTENT}
                              THEN 1 ELSE 0)
            /\ (rq[r].sends = 1 /\ ~rq[r].failed) =>
                  rq[r].event = [post_id |-> Str(rq[r].post),
                                 like_count |-> Str(rq[r].like_count),
                                 user_id |-> rq[r].user])
    /\ [][\A r \in Reqs :
            /\ rq'[r].sends > rq[r].sends => rq[r].pc = "bcast"
            /\ (rq[r].pc = "count" /\ rq'[r].pc = "commit") =>
                 rq'[r].like_count =
                    Cardinality({l \in likes : /\ l.post = rq[r].post
                                               /\ l.user # rq[r].user})
                    + (IF rq[r].response = HTTP_201_CREATED THEN 1 ELSE 0)]_vars

C8_Witness ==
    \E r \in Reqs :
        /\ rq[r].pc = "done" /\ rq[r].sends = 1 /\ ~rq[r].failed
        /\ rq[r].response = HTTP_201_CREATED
        /\ rq[r].event.like_count = Str(2)

\* C9: when the broadcast transport fails, the committed insert or delete
\* stays, the caller gets the same 201/204, the failure is logged and the
\* broadcast is not retried.
C9_BroadcastFailureSwallowed ==
    /\ [](\A r \in Reqs :
            (rq[r].pc = "done" /\ rq[r].failed) =>
                /\ rq[r].sends = 1
                /\ rq[r].response \in {HTTP_201_CREATED, HTTP_204_NO_CONTENT})
    /\ [][\A r \in Reqs :
            (~rq[r].failed /\ rq'[r].failed) =>
                /\ likes' = likes
                /\ rq'[r].response = rq[r].response
                /\ rq'[r].pc = "done"
                /\ log' = log + 1
                /\ chan' = chan]_vars

C9_Witness ==
    \E r \in Reqs :
        /\ rq[r].pc = "done" /\ rq[r].failed
        /\ rq[r].response = HTTP_201_CREATED
        /\ rq[r].created \in likes
        /\ log = 1

\* C10: an event triggered by user U is forwarded on a connection of the
\* "likes" group iff the connection is anonymous or of another user,
\* whatever the post; a connection is sent frames only between its connect
\* and its disconnect.
C10_ForwardedUnlessOwn ==
    /\ [](\A c \in Conns :
            /\ \A i \in 1..Len(received[c].frames) :
                 \/ received[c].scope = Anon
                 \/ received[c].scope # received[c].frames[i].by
            /\ \A i \in 1..Len(dropped[c]) :
                 /\ received[c].scope # Anon
                 /\ received[c].scope = dropped[c][i].user_id
            /\ c \notin group => chan[c] = <<>>)
    /\ [][\A c \in Conns :
            received'[c].frames # received[c].frames =>
                \/ c \in group /\ c \in group'
                \/ c \notin group /\ received'[c].frames = <<>>]_vars

C10_Witness ==
    \E c1 \in Conns : \E c2 \in Conns \ {c1} :
        /\ received[c1].scope \in Users
        /\ Len(dropped[c1]) = 1
        /\ dropped[c1][1].user_id = received[c1].scope
        /\ received[c2].scope # received[c1].scope
        /\ Len(received[c2].frames) = 1
        /\ received[c2].frames[1].by = received[c1].scope


\* ------------------------------------------------------------------ C11
RecordOf(j) == {t \in outstanding : t.jti = j}

\* C11: in every reachable state of the token ledger every blacklist
\* record refers to an existing outstanding record, and a step that
\* blacklists a token removes no outstanding record.
C11_BlacklistedIsOutstanding ==
    /\ [](\A j \in Jtis : blacklisted[j] > 0 => RecordOf(j) # {})
    /\ [][\A j \in Jtis :
             blacklisted'[j] > blacklisted[j] =>
                \A t \in outstanding :
                    \E n \in outstanding' : n.jti = t.jti]_vars

\* a blacklisted record is in the ledger after another record was flushed
C11_Witness ==
    /\ \E j \in Jtis : blacklisted[j] > 0 /\ RecordOf(j) # {}
    /\ \E j \in Jtis : j < nextJti /\ RecordOf(j) = {} /\ RefreshExpired(j)
    /\ \E t \in outstanding : t.user = NoUser

\* ------------------------------------------------------------------ C12
\* C12: from every reachable ledger, after blacklist_user_tokens(user)
\* every outstanding record of the user has exactly one blacklist record
\* and the records of other users are as before; a second call in
\* succession leaves the table of the first call.
C12_BlacklistAllIdempotent ==
    \A u \in Users :
        LET once == blacklist_user_tokens(outstanding, blacklisted, u)
            twice == blacklist_user_tokens(outstanding, once, u)
        IN /\ \A t \in outstanding : t.user = u => once[t.jti] = 1
           /\ \A j \in Jtis :
                 (\A t \in outstanding : t.jti = j => t.user # u)
                    => once[j] = blacklisted[j]
           /\ twice = once

\* a recovery request has called it for a user who then holds a
\* blacklisted record and one that is not
C12_Witness ==
    /\ auth.kind = "recovery"
    /\ auth.status = HTTP_200_OK
    /\ \E t1 \in outstanding : \E t2 \in outstanding :
          /\ t1.user = auth.user /\ t2.user = auth.user
          /\ blacklisted[t1.jti] = 1
          /\ blacklisted[t2.jti] = 0

\* ------------------------------------------------------------------ C13
\* a request of the token endpoints is answered in this step
Answered == auth'.at # auth.at

\* C13: a refresh answered 200 has blacklisted the presented token (as
\* long as it has not expired meanwhile), returns a refresh token with a
\* new jti and leaves an outstanding record of that jti owned by the same
\* user; so every unexpired refresh token handed to a client has an
\* outstanding record, which a blacklist_user_tokens call for its user
\* blacklists.
C13_RotationIsTracked ==
    /\ [][(Answered /\ auth'.kind = "refresh" /\ auth'.status = HTTP_200_OK)
            => /\ (~RefreshExpired(auth'.presented)
                      => blacklisted'[auth'.presented] = 1)
               /\ auth'.refresh # auth'.presented
               /\ \A t \in issued : t.jti # auth'.refresh
               /\ RefreshToken(auth'.refresh, auth'.user) \in issued'
               /\ [jti |-> auth'.refresh, user |-> auth'.user]
                      \in outstanding']_vars
    /\ [](\A t \in issued :
             (t.type = "refresh" /\ ~RefreshExpired(t.jti))
                => /\ RecordOf(t.jti) # {}
                   /\ t.user \in users =>
                        /\ \A o \in RecordOf(t.jti) : o.user = t.user
                        /\ blacklist_user_tokens(outstanding, blacklisted,
                                                 t.user)[t.jti] = 1)

\* a rotation has been answered: the old token is blacklisted, the new one
\* is recorded and not blacklisted
C13_Witness ==
    /\ auth.kind = "refresh"
    /\ auth.status = HTTP_200_OK
    /\ blacklisted[auth.presented] = 1
    /\ [jti |-> auth.refresh, user |-> auth.user] \in outstanding
    /\ blacklisted[auth.refresh] = 0
    /\ RefreshToken(auth.refresh, auth.user) \in issued

\* ------------------------------------------------------------------ C14
\* the refresh token with this jti can no longer pass verification
Unusable(j) == blacklisted[j] > 0 \/ RefreshExpired(j)

\* C14: a refresh token that has been exchanged or blacklisted stays
\* unusable; a refresh request received while the token it presents is
\* unusable is answered 401 at once, hands out no token and creates no
\* outstanding record.
C14_SpentTokenIsRejected ==
    /\ [][\A j \in Jtis : Unusable(j) => Unusable(j)']_vars
    /\ [][(Answered /\ auth'.kind = "refresh" /\ auth'.status = HTTP_200_OK)
            => \E j \in Jtis : j = auth'.presented /\ Unusable(j)']_vars
    /\ [][\A r \in Reqs :
            (rf[r].pc = "idle" /\ rf'[r].pc # "idle")
                => ~Unusable(rf'[r].refresh.jti)]_vars
    /\ [][(Answered /\ auth'.kind = "refresh" /\ ops' = ops + 1)
            => /\ auth'.status = HTTP_401_UNAUTHORIZED
               /\ auth'.refresh = 0 /\ auth'.access = 0
               /\ issued' = issued
               /\ outstanding' = outstanding
               /\ nextJti' = nextJti]_vars

\* a token was exchanged for a successor and then presented again
C14_Witness ==
    /\ auth.kind = "refresh"
    /\ auth.status = HTTP_401_UNAUTHORIZED
    /\ blacklisted[auth.presented] = 1
    /\ ~RefreshExpired(auth.presented)
    /\ RefreshToken(auth.presented, auth.user) \in issued
    /\ \E t \in issued : /\ t.type = "refresh"
                         /\ t.jti > auth.presented
                         /\ t.user = auth.user
                         /\ blacklisted[t.jti] = 0

\* ------------------------------------------------------------------ C15
\* a password change or reset is answered 200 in this step
PasswordChanged ==
    /\ Answered
    /\ auth'.kind \in {"change", "reset"}
    /\ auth'.status = HTTP_200_OK

\* C15: with the requests of the token endpoints made one after another,
\* a password change or reset answered 200 leaves every outstanding
\* record of the user blacklisted and every refresh token handed to the
\* user unusable; the stored password changes only in that step, with
\* the blacklist rows, and nothing is visible before the commit.
C15_PasswordChangeBlacklistsAll ==
    /\ [][PasswordChanged =>
            /\ \A o \in outstanding' :
                  o.user = auth'.user => blacklisted'[o.jti] = 1
            /\ \A t \in issued' :
                  (t.type = "refresh" /\ t.user = auth'.user)
                      => Unusable(t.jti)']_vars
    /\ [][\A u \in Users : password'[u] # password[u]
            => PasswordChanged /\ auth'.user = u]_vars
    /\ [][(tx.pc = "idle" /\ tx'.pc = "commit")
            => password' = password /\ blacklisted' = blacklisted]_vars

\* a user who had logged in twice has changed the password
C15_Witness ==
    /\ auth.kind = "change"
    /\ auth.status = HTTP_200_OK
    /\ password[auth.user] # 0
    /\ Cardinality({t \in issued : t.type = "refresh" /\ t.user = auth.user
                                     /\ blacklisted[t.jti] = 1
                                     /\ ~RefreshExpired(t.jti)}) = 2

\* ------------------------------------------------------------------ C16
\* C16: when the last answered request was a password reset that
\* succeeded with a recovery token, a password reset presenting the same
\* recovery token is rejected and leaves the password unchanged.
C16_RecoveryTokenUsedOnce ==
    [][(/\ auth.kind = "reset"
        /\ auth.status = HTTP_200_OK
        /\ \E m \in mail : m.access.jti = auth.presented
        /\ Answered
        /\ auth'.kind = "reset"
        /\ auth'.presented = auth.presented)
          => /\ auth'.status = HTTP_401_UNAUTHORIZED
             /\ password' = password]_vars

\* ------------------------------------------------------------------ C17
\* the records of user u
RecordsOf(u) == {t \in outstanding : t.user = u}

\* C17: a recovery request for a registered email is answered 200; it
\* leaves exactly the records the user had before blacklisted, adds one
\* record, not blacklisted, for the token it issues and queues one email
\* with that token; the records of other users are untouched.  A request
\* for an unknown email is answered 404 and changes neither the ledger
\* nor the mail queue.
C17_RecoveryBlacklistsThenIssues ==
    [][(Answered /\ auth'.kind = "recovery") =>
         LET u == auth'.user IN
         IF u \in users
         THEN /\ auth'.status = HTTP_200_OK
              /\ \A t \in RecordsOf(u) : blacklisted'[t.jti] = 1
              /\ \E j \in Jtis :
                    /\ RecordOf(j) = {}
                    /\ outstanding' = outstanding \cup {[jti |-> j, user |-> u]}
                    /\ blacklisted'[j] = 0
                    /\ mail' = mail \cup {[to |-> u, access |-> AccessToken(j, u)]}
                    /\ [to |-> u, access |-> AccessToken(j, u)] \notin mail
              /\ \A t \in outstanding \ RecordsOf(u) :
                    blacklisted'[t.jti] = blacklisted[t.jti]
         ELSE /\ auth'.status = HTTP_404_NOT_FOUND
              /\ blacklisted' = blacklisted
              /\ outstanding' = outstanding
              /\ issued' = issued
              /\ mail' = mail]_vars

\* a user with two live refresh tokens has asked for recovery
C17_Witness ==
    /\ auth.kind = "recovery"
    /\ auth.status = HTTP_200_OK
    /\ Cardinality({t \in issued : /\ t.type = "refresh"
                                   /\ t.user = auth.user
                                   /\ blacklisted[t.jti] = 1}) = 2
    /\ \E m \in mail : /\ m.to = auth.user
                       /\ blacklisted[m.access.jti] = 0
                       /\ RecordOf(m.access.jti) # {}

\* the step that answers a batch request
BatchAnswered == batch'.n # batch.n

\* the ids a request names, when every token is an integer
Requested(ids) == {int(ids[i]) : i \in 1..Len(ids)}

\* C18: for a list of integer ids the batch endpoint answers 200 with an
\* object whose keys are exactly the requested ids of existing posts
\* (nonexistent ids are left out without an error); each key's count is the
\* number of Like rows on that post, and liked is true iff the caller is
\* authenticated and has a Like row on that post.
C18_BatchReportsExistingPosts ==
    [][(BatchAnswered /\ batch'.ids # NoIds
          /\ \A i \in 1..Len(batch'.ids) : IsInteger(batch'.ids[i]))
       => /\ batch'.status = HTTP_200_OK
          /\ DOMAIN batch'.data
               = {Str(p) : p \in Requested(batch'.ids) \cap posts}
          /\ \A p \in Requested(batch'.ids) \cap posts :
               /\ batch'.data[Str(p)].count
                    = Cardinality({l \in likes : l.post = p})
               /\ batch'.data[Str(p)].liked
                    = (/\ batch'.user # Anon
                       /\ \E l \in likes :
                            l.user = batch'.user /\ l.post = p)]_vars

\* a caller asks for post 1, which they and another user like, and for a post
\* that does not exist
C18_Witness ==
    /\ batch.n = 1
    /\ batch.user \in users
    /\ batch.ids = << <<"1">>, <<"1", "1">> >>
    /\ batch.status = HTTP_200_OK
    /\ DOMAIN batch.data = {Str(1)}
    /\ batch.data[Str(1)] = [count |-> 2, liked |-> TRUE]

\* the comma-separated pieces of the parameter a request carried
Pieces(ids) == {ids[i] : i \in 1..Len(ids)}

\* the parameter is missing or the empty string
MissingOrEmpty(ids) == ids = NoIds \/ ids = << <<>> >>

\* C19 as stated: 400 for the whole request whenever any comma-separated
\* token of ids is not a valid integer, 200 with an empty object when ids is
\* missing or empty, and no stored state is changed in either case.
C19_AnyInvalidTokenIs400 ==
    [][BatchAnswered
       => /\ (/\ ~MissingOrEmpty(batch'.ids)
              /\ \E t \in Pieces(batch'.ids) : ~IsInteger(strip(t)))
             => batch'.status = HTTP_400_BAD_REQUEST
          /\ MissingOrEmpty(batch'.ids)
             => batch'.status = HTTP_200_OK /\ batch'.data = <<>>
          /\ UNCHANGED <<dbvars, authvars>>]_vars

\* C19: the batch endpoint answers 400 for the whole request exactly when
\* some token of ids that is not blank is not a valid integer; blank tokens
\* are skipped, so a missing, empty or all-blank ids is answered 200 with an
\* empty object; no answer of the endpoint changes stored state.
C19_NonBlankInvalidTokenIs400 ==
    [][BatchAnswered
       => LET nonblank == {t \in Pieces(batch'.ids) : strip(t) # <<>>}
          IN /\ (batch'.status = HTTP_400_BAD_REQUEST)
                  = (\E t \in nonblank : ~IsInteger(strip(t)))
             /\ batch'.status \in {HTTP_200_OK, HTTP_400_BAD_REQUEST}
             /\ batch'.status = HTTP_400_BAD_REQUEST => batch'.data = <<>>
             /\ nonblank = {}
                => batch'.status = HTTP_200_OK /\ batch'.data = <<>>
             /\ UNCHANGED <<dbvars, authvars>>]_vars

\* a request naming an existing, liked post and a token that is no number
C19_Witness ==
    /\ batch.n = 1
    /\ batch.ids = << <<"1">>, <<"x">> >>
    /\ batch.status = HTTP_400_BAD_REQUEST
    /\ 1 \in posts
    /\ \E l \in likes : l.post = 1

\* the user a step deletes, the posts and the likes that go with the row
Deleted == users \ users'
CascadedPosts == {p \in posts : author[p] \in Deleted}
CascadedLikes == {l \in likes : l.user \in Deleted \/ l.post \in CascadedPosts}

\* C20: referential integrity is an invariant of post creations, toggles,
\* post deletions and user deletions: every Like row references an existing
\* user and an existing post and every post an existing author; a user's
\* deletion removes the user's posts, the user's likes and the likes on those
\* posts, and a post's deletion removes the likes on it.
C20_ReferentialIntegrity ==
    /\ [](/\ \A l \in likes : l.user \in users /\ l.post \in posts
          /\ \A p \in posts : author[p] \in users)
    /\ [][Deleted # {}
          => /\ posts' = posts \ CascadedPosts
             /\ likes' = likes \ CascadedLikes]_vars
    /\ [][(Deleted = {} /\ posts \ posts' # {})
          => likes' = {l \in likes : l.post \in posts'}]_vars

\* a like was inserted and the next request deleted user 1: the like, which
\* was user 1's or on user 1's post, went with the row
C20_Witness ==
    /\ ops = 2
    /\ direct = [at |-> 1, outcome |-> "created"]
    /\ nextId = 2
    /\ users = Users \ {1}
    /\ posts = {p \in Posts : author[p] # 1}
    /\ likes = {}

\* the step that answers an email verification
VerifyAnswered == reply'.n # reply.n /\ reply'.kind = "verify"

\* the users whose current verification token is t
Holders(t) == {u \in users : account[u].email_verification_token = t}

NameAnswered == reply'.n # reply.n /\ reply'.kind = "username"

DetailAnswered == served'.n # served.n

C24_OneWritePerWindow ==
    /\ [](\A u \in Users :
            \A i, j \in 1..Len(writes[u]) :
               i < j => writes[u][j] - writes[u][i] >= UPDATE_INTERVAL_SECONDS)
    /\ [][\A u \in Users :
            (KeyPresent(u) /\ mw'.n # mw.n /\ mw'.slot = mw.slot)
               => writes' = writes]_vars

\* C25: the publication check is not repeated inside the transaction: a
\* toggle that passed validation and inserted its Like commits it and
\* answers 201 also when the post has been unpublished before the commit,
\* so a Like row committed for a post unpublished at commit time is
\* reachable.
C25_UnpublishRaceCommits ==
    [][\A r \in Reqs :
         (/\ rq[r].pc = "commit" /\ rq'[r].pc # "commit"
          /\ rq[r].created # NoLike
          /\ rq[r].user \in users /\ rq[r].post \in posts
          /\ ~published[rq[r].post])
         => /\ rq[r].created \in likes'
            /\ rq'[r].response = HTTP_201_CREATED]_vars

\* a request answered 201 whose Like was committed when the post was
\* already unpublished
C25_Witness ==
    \E r \in Reqs :
        /\ rq[r].unpublished
        /\ rq[r].response = HTTP_201_CREATED
        /\ rq[r].created \in likes
        /\ ~published[rq[r].post]

\* no toggle request is in progress
AllCompleted == \A r \in Reqs : rq[r].pc \in {"idle", "done"}

\* C26: toggle responses account for state changes under any interleaving
\* of toggles on one (user, post) pair: a request answered 201 inserted
\* exactly one row and a request answered 204 deleted exactly one row, so
\* once all calls have completed the pair's row, absent at first, is present
\* iff an odd number of calls completed.
C26_ResponsesAccountForRows ==
    /\ [][\A r \in Reqs :
            (rq[r].pc = "commit" /\ rq'[r].pc = "bcast")
            => /\ rq[r].response = HTTP_201_CREATED
                  => /\ likes' \ likes = {rq[r].created}
                     /\ likes \ likes' = {}
                     /\ rq[r].created.user = rq[r].user
                     /\ rq[r].created.post = rq[r].post
               /\ rq[r].response = HTTP_204_NO_CONTENT
                  => /\ likes \ likes' = {rq[r].existing_like}
                     /\ likes' \ likes = {}
                     /\ rq[r].existing_like.user = rq[r].user
                     /\ rq[r].existing_like.post = rq[r].post
               /\ rq[r].response \in {HTTP_201_CREATED, HTTP_204_NO_CONTENT}]_vars
    /\ [](AllCompleted
            => \A u \in Users : \A p \in Posts :
                 (Pair(u, p) # {}) = (nth[u][p] % 2 = 1))

\* C27: a token refresh racing with a password change (or another
\* blacklist_user_tokens call) for the same user leaves no usable refresh
\* token behind.  When the refresh is the later of the two to complete, the
\* token it returns is blacklisted; when the password change is the later,
\* the token the refresh returned is blacklisted by it.
C27_RefreshRaceLeavesNoToken ==
    /\ [][\A r \in Reqs :
            (/\ rf[r].pc = "create" /\ rf'[r].pc = "idle"
             /\ auth'.status = HTTP_200_OK
             /\ auth.kind \in {"change", "reset", "recovery"}
             /\ auth.status = HTTP_200_OK
             /\ auth.user = rf[r].refresh.user
             /\ auth.at > rf[r].at)
            => \E j \in Jtis : j = auth'.refresh /\ blacklisted'[j] > 0]_vars
    /\ [][(/\ tx.pc = "commit" /\ tx'.pc = "idle"
           /\ auth'.status = HTTP_200_OK
           /\ auth.kind = "refresh"
           /\ auth.status = HTTP_200_OK
           /\ auth.user = tx.user
           /\ ~RefreshExpired(auth.refresh))
          => blacklisted'[auth.refresh] > 0]_vars

\* C28: a refresh token is successfully exchanged at most once, also when
\* two refresh requests present it concurrently: a refresh answered 200 is
\* never followed by another refresh answered 200 for the same presented
\* token, so one token has at most one successor.
C28_RefreshExchangedOnce ==
    [][(/\ Answered
        /\ auth'.kind = "refresh" /\ auth'.status = HTTP_200_OK
        /\ auth.kind = "refresh" /\ auth.status = HTTP_200_OK)
       => auth'.presented # auth.presented]_vars

\* C29: an email verification with a token that exists and has not expired
\* always completes with 200 and the user's email set to the pending
\* address, also when another user has taken the address since the change
\* was requested, and never ends in a uniqueness error.
C29_ValidTokenAlwaysVerifies ==
    [][VerifyAnswered =>
         \A u \in Holders(reply'.token) :
            ~(account[u].email_verification_expires < now)
            => /\ reply'.status = HTTP_200_OK
               /\ account'[u].email = account[u].pending_email]_vars

\* the toggle calls on post p that passed validation
TogglesOn(p) ==
    Cardinality({c \in Users \X (1..MaxOps) : c[2] <= nth[c[1]][p]})

\* the frames about post p that connection c has sent to its client
FramesAbout(c, p) ==
    SelectSeq(received[c].frames, LAMBDA f : f.post_id = Str(p))

\* C30: broadcasts about one post reach subscribers in the commit order of
\* the toggles that caused them: once all toggles on a post, each by a
\* different user, have completed and a subscriber has been sent the
\* broadcast of every one of them, the last like count it was sent equals
\* the post's persisted like count.
C30_LastBroadcastIsPersistedCount ==
    \A c \in Conns : \A p \in Posts :
       (/\ AllCompleted
        /\ chan[c] = <<>>
        /\ TogglesOn(p) > 0
        /\ \A u \in Users : nth[u][p] <= 1
        /\ Len(FramesAbout(c, p)) = TogglesOn(p))
       => FramesAbout(c, p)[Len(FramesAbout(c, p))].like_count
             = Str(Cardinality({l \in likes : l.post = p}))
====
